---- MODULE Spec2Model ----
(***************************************************************************)
(* comin: the deployment pipeline of nix.Deploy (src/nix/nix.go) and the   *)
(* /deploy webhook handler (src/http/http.go) in front of the worker gate. *)
(*                                                                         *)
(* One Deploy run is a sequence of steps, each an action of its own, so    *)
(* that webhook requests interleave with a run in progress.  The machine   *)
(* the agent runs on is the durable state: the state directory, the GC     *)
(* roots, the system profile, the active configuration, the loaded unit    *)
(* of the agent and the realized store paths.                              *)
(***************************************************************************)
EXTENDS Integers, Sequences, FiniteSets, TLC

\* ------------------------------------------------------------------ bounds
\* Number of concurrent webhook callers.
NumCallers == 2
\* Number of orchestrator runs that could be in flight at once if the gate
\* let them (the gate is expected to keep all but the first slot idle).
NumSlots == 2
\* Number of Deploy runs started in one behaviour.
MaxDeploys == 2

Callers == 1..NumCallers
Slots == 1..NumSlots

\* ------------------------------------------------------------- value sets
Hosts == {"web1", "web2"}
Operations == {"switch", "boot", "test", "dry-activate"}
\* Derivation paths the evaluation query can list, and their output paths.
Drvs == {"d1", "d2"}
None == "none"
NoErr == "nil"

\* Derivation.Outputs.Out.Path of a derivation entry
OutPathOf(drv) == IF drv = "d1" THEN "/nix/store/o1" ELSE "/nix/store/o2"
OutPaths == {OutPathOf(d) : d \in Drvs}

\* The text of comin.service that each configuration declares; the machine
\* starts with the unit of the first one loaded
UnitOf(config) == IF config = "/nix/store/o2" THEN "unitB" ELSE "unitA"

\* The identity of the machine the agent runs on, and its /etc/machine-id:
\* the identity followed by a newline
LocalMachineId == <<"a", "b">>
MachineIdFile == LocalMachineId \o <<"\n">>
\* Values services.comin.machineId can evaluate to
EvalOutputs ==
    { [kind |-> "invalid"], [kind |-> "null"],
      [kind |-> "string", val |-> <<"a", "b">>],
      [kind |-> "string", val |-> <<"c", "d">>] }

Secrets == {"", "s3cret"}
Headers == {"", "s3cret", "wrong"}

StatusOK == 200
StatusUnauthorized == 401
StatusConflict == 409

VARIABLES
    \* ---- the machine
    stateDirExists,   \* the state directory exists
    gcRootDirExists,  \* <stateDir>/gcroots exists
    gcRoots,          \* host -> target of gcroots/switch-to-configuration-<host>, or None
    systemProfile,    \* target of /nix/var/nix/profiles/system, or None
    activeConfig,     \* the configuration activated last, or None
    realized,         \* output paths present in the store
    \* ---- the webhook server
    cfgSecret,        \* cfg.Secret
    busy,             \* the gate's busy flag
    cpc,              \* caller -> "idle" | "atGate"
    lastStatus,       \* the status code the handler wrote last (0: none yet)
    lastHeader,       \* the X-Gitlab-Token of the request that arrived last
    \* ---- orchestrator runs
    runs,             \* slot -> the Deploy run in that slot
    deploys,          \* number of Deploy runs started so far
    lastSuccess       \* host -> output path of the last successful non-dry-run Deploy

vars == <<stateDirExists, gcRootDirExists, gcRoots, systemProfile, activeConfig,
          realized, cfgSecret, busy, cpc, lastStatus, lastHeader, runs, deploys,
          lastSuccess>>

machine == <<stateDirExists, gcRootDirExists, gcRoots, systemProfile, activeConfig,
             realized>>
webhook == <<cfgSecret, cpc, lastStatus, lastHeader>>

\* ------------------------------------------------------------ Deploy runs
\* Deploy activating before it sets the system profile
PipelineActivateFirst ==
    << "MkdirAll", "checkMachineId", "Build", "hashBefore",
       "switchToConfiguration", "setSystemProfile", "hashAfter", "createGcRoot" >>

\* The steps of Deploy in the order of its body
Pipeline ==
    << "MkdirAll", "checkMachineId", "Build", "hashBefore",
       "setSystemProfile", "switchToConfiguration", "hashAfter", "createGcRoot" >>

RECURSIVE IndexOf(_, _, _)
IndexOf(seq, x, i) ==
    IF i > Len(seq) THEN 0
    ELSE IF seq[i] = x THEN i ELSE IndexOf(seq, x, i + 1)

StepIndex(step) == IndexOf(Pipeline, step, 1)

Range(seq) == {seq[i] : i \in 1..Len(seq)}

IdleRun ==
    [ pc |-> "idle", hostname |-> None, operation |-> None, dryRun |-> FALSE,
      outPath |-> None,
      beforeHash |-> << >>, afterHash |-> << >>,
      needToRestartComin |-> FALSE, err |-> NoErr,
      calls |-> << >>, failed |-> << >>, cmds |-> << >>, local |-> << >>,
      gcRoots0 |-> [h \in Hosts |-> None], systemProfile0 |-> None ]

Running(r) == runs[r].pc \notin {"idle"}
InProgress == {r \in Slots : Running(r)}
Crashed == \E r \in Slots : runs[r].pc = "crashed"

Init ==
    /\ stateDirExists = FALSE
    /\ gcRootDirExists = FALSE
    /\ gcRoots = [h \in Hosts |-> None]
    /\ systemProfile = None
    /\ activeConfig = None
    /\ realized = {}
    /\ cfgSecret \in Secrets
    /\ busy = FALSE
    /\ cpc = [c \in Callers |-> "idle"]
    /\ lastStatus = 0
    /\ lastHeader = ""
    /\ runs = [r \in Slots |-> IdleRun]
    /\ deploys = 0
    /\ lastSuccess = [h \in Hosts |-> None]

\* ----------------------------------------------------- pure helpers of nix.go
\* strings.TrimSuffix(s, "\n")
TrimSuffixNewline(s) ==
    IF Len(s) > 0 /\ s[Len(s)] = "\n" THEN SubSeq(s, 1, Len(s) - 1) ELSE s

\* os.ReadFile("/etc/machine-id"): the bytes read, empty when the read fails
ReadMachineIdFile(readOk) == IF readOk THEN MachineIdFile ELSE << >>

\* getExpectedMachineId: (isSet, machineId, err) from the outcome of `nix eval`
GetExpectedMachineId(cmdOk, out) ==
    IF ~cmdOk THEN [isSet |-> FALSE, machineId |-> << >>, err |-> "eval"]
    ELSE IF out.kind = "invalid"
         THEN [isSet |-> FALSE, machineId |-> << >>, err |-> "json"]
    ELSE IF out.kind = "string"
         THEN [isSet |-> TRUE, machineId |-> out.val, err |-> NoErr]
    ELSE [isSet |-> FALSE, machineId |-> << >>, err |-> NoErr]

\* checkMachineId without the comparison of the two identities
CheckMachineIdNoCompare(exp, readOk) ==
    IF exp.err # NoErr THEN exp.err
    ELSE IF exp.isSet /\ ~readOk THEN "readMachineId"
    ELSE NoErr

\* checkMachineId going on as if the check were skipped when /etc/machine-id
\* cannot be read
CheckMachineIdSkipsUnreadable(exp, readOk) ==
    IF exp.err # NoErr THEN exp.err
    ELSE IF exp.isSet
         THEN LET machineId == TrimSuffixNewline(ReadMachineIdFile(readOk))
              IN  IF ~readOk THEN NoErr
                  ELSE IF exp.machineId # machineId THEN "mismatch"
                  ELSE NoErr
    ELSE NoErr

\* checkMachineId, lines 159-163: /etc/machine-id is read when the evaluation
\* succeeded and the option is set
ReadsMachineId(exp) == exp.err = NoErr /\ exp.isSet

\* checkMachineId: the error it returns (NoErr: the deployment may go on)
CheckMachineId(exp, readOk) ==
    IF exp.err # NoErr THEN exp.err
    ELSE IF exp.isSet
         THEN LET machineId == TrimSuffixNewline(ReadMachineIdFile(readOk))
              IN  IF ~readOk THEN "readMachineId"
                  ELSE IF exp.machineId # machineId THEN "mismatch"
                  ELSE NoErr
    ELSE NoErr

\* Outcomes of `nix show-derivation`: the command fails, its output does not
\* parse, or it parses to a map from derivation paths to derivations; toplevel
\* is the entry of the host's system.build.toplevel among the keys.
QueryResults ==
    { [ok |-> FALSE, json |-> "none", keys |-> {}, toplevel |-> None],
      [ok |-> TRUE, json |-> "invalid", keys |-> {}, toplevel |-> None],
      [ok |-> TRUE, json |-> "map", keys |-> {}, toplevel |-> None] }
    \cup { [ok |-> TRUE, json |-> "map", keys |-> K, toplevel |-> t] :
             <<K, t>> \in {kt \in (SUBSET Drvs) \X Drvs : kt[2] \in kt[1]} }

\* keys[0] of showDerivation: the keys are collected by ranging over a Go map,
\* so any key can come first
FirstKeys(keys) == keys

\* sha256 of the unit text, printed in hexadecimal
Sha256(unit) == <<"sha256", unit>>

\* `systemctl cat comin.service`: the unit of the configuration that is active
LoadedUnit == UnitOf(activeConfig)

\* cominUnitFileHash: (hash, err)
CominUnitFileHash(cmdOk, unit) ==
    IF cmdOk THEN [hash |-> Sha256(unit), err |-> NoErr]
    ELSE [hash |-> << >>, err |-> "systemctl"]

\* Deploy without the comparison of the two fingerprints
NeedToRestartNever(before, after) == FALSE

\* Deploy asking for a restart when the two fingerprints are the same
NeedToRestartWhenEqual(before, after) == before = after

\* Deploy, lines 282-284
NeedToRestart(before, after) == before # after

\* setSystemProfile without the test of the operation
UpdatesProfileAlways(operation) == TRUE

\* setSystemProfile runs nix-env for these operations only
UpdatesProfile(operation) == operation = "switch" \/ operation = "boot"

\* Deploy returning after the second fingerprint, without createGcRoot
FollowingSkipsGcRoot(step) ==
    IF StepIndex(step) >= Len(Pipeline) - 1 THEN "returned"
    ELSE Pipeline[StepIndex(step) + 1]

\* The statement after `step` in Deploy's body
Following(step) ==
    IF StepIndex(step) = Len(Pipeline) THEN "returned"
    ELSE Pipeline[StepIndex(step) + 1]

\* Deploy calling a step again when it fails
DeployNextRetry(step, e) == IF e # NoErr THEN step ELSE Following(step)

\* Deploy without the error check after switchToConfiguration
DeployNextUncheckedSwitch(step, e) ==
    IF e # NoErr /\ step # "switchToConfiguration" THEN "returned"
    ELSE Following(step)

\* Deploy's control flow: after each step `if err != nil { return }`, else the
\* next statement
DeployNext(step, e) ==
    IF e # NoErr THEN "returned" ELSE Following(step)

\* The run after `step` ended with error e; local holds what the callee left
\* behind in its own variables, until the next step replaces it
After(run, step, e, local) ==
    [run EXCEPT !.pc = DeployNext(step, e), !.err = e, !.calls = Append(@, step),
                !.failed = IF e # NoErr THEN Append(@, step) ELSE @,
                !.local = local]

\* ------------------------------------------------------- the steps of Deploy
SetRun(r, run) == runs' = [runs EXCEPT ![r] = run]

\* The run of slot r is about to execute `step`; a process that has panicked
\* executes nothing more
AtStep(r, step) == ~Crashed /\ runs[r].pc = step

\* os.Mkdir in the place of os.MkdirAll: an error on a directory that exists
MkdirFailsIfExists(exists) == IF exists THEN {FALSE} ELSE BOOLEAN

\* os.MkdirAll succeeds on a directory that exists, and may fail otherwise
MkdirOutcomes(exists) == IF exists THEN {TRUE} ELSE BOOLEAN

\* Deploy, lines 250-253: os.MkdirAll(stateDir)
MkdirStateDir(r) ==
    /\ AtStep(r, "MkdirAll")
    /\ \E ok \in MkdirOutcomes(stateDirExists) :
         /\ stateDirExists' = (stateDirExists \/ ok)
         /\ SetRun(r, After(runs[r], "MkdirAll", IF ok THEN NoErr ELSE "mkdir", << >>))
    /\ UNCHANGED <<gcRootDirExists, gcRoots, systemProfile, activeConfig,
                   realized, webhook, busy, deploys, lastSuccess>>

\* Deploy, lines 255-257: checkMachineId(path, hostname)
CheckMachineIdStep(r) ==
    /\ AtStep(r, "checkMachineId")
    /\ \E cmdOk \in BOOLEAN, out \in EvalOutputs, readOk \in BOOLEAN :
         LET exp == GetExpectedMachineId(cmdOk, out)
             e == CheckMachineId(exp, readOk)
             local == [isSet |-> exp.isSet, expected |-> exp.machineId,
                       evalErr |-> exp.err,
                       readsMachineId |-> ReadsMachineId(exp),
                       readFailed |-> (ReadsMachineId(exp) /\ ~readOk)]
         IN  SetRun(r, [After(runs[r], "checkMachineId", e, local) EXCEPT
                           !.cmds = Append(@, <<"nix eval">>)])
    /\ UNCHANGED <<machine, webhook, busy, deploys, lastSuccess>>

\* Deploy, lines 259-262: Build(path, hostname), that is showDerivation and
\* then `nix build`.  showDerivation indexes keys[0]: with no entry in the
\* parsed map the index is out of range and the process panics.
BuildStep(r) ==
    /\ AtStep(r, "Build")
    /\ \E q \in QueryResults :
         \/ /\ ~q.ok \/ q.json = "invalid"
            /\ SetRun(r, [After(runs[r], "Build",
                                IF q.ok THEN "json" ELSE "show-derivation", << >>)
                            EXCEPT !.cmds = Append(@, <<"nix show-derivation">>)])
            /\ UNCHANGED realized
         \/ /\ q.ok /\ q.json = "map" /\ q.keys = {}
            /\ SetRun(r, [runs[r] EXCEPT !.pc = "crashed",
                            !.calls = Append(@, "Build"),
                            !.cmds = Append(@, <<"nix show-derivation">>)])
            /\ UNCHANGED realized
         \/ /\ q.ok /\ q.json = "map" /\ q.keys # {}
            /\ \E drv \in FirstKeys(q.keys), buildOk \in BOOLEAN :
                 /\ realized' = IF buildOk THEN realized \cup {OutPathOf(drv)}
                                ELSE realized
                 /\ SetRun(r, [After(runs[r], "Build",
                                     IF buildOk THEN NoErr ELSE "build",
                                     [drvPath |-> drv, keys |-> q.keys,
                                      toplevel |-> q.toplevel])
                                 EXCEPT !.outPath = OutPathOf(drv),
                                        !.cmds = @ \o << <<"nix show-derivation">>,
                                                         <<"nix build", drv>> >>])
    /\ UNCHANGED <<stateDirExists, gcRootDirExists, gcRoots, systemProfile,
                   activeConfig, webhook, busy, deploys, lastSuccess>>

\* Deploy, lines 264-267: the fingerprint before setSystemProfile
HashBefore(r) ==
    /\ AtStep(r, "hashBefore")
    /\ \E cmdOk \in BOOLEAN :
         LET h == CominUnitFileHash(cmdOk, LoadedUnit)
         IN  SetRun(r, [After(runs[r], "hashBefore", h.err, << >>) EXCEPT
                           !.beforeHash = h.hash,
                           !.cmds = Append(@, <<"systemctl cat">>)])
    /\ UNCHANGED <<machine, webhook, busy, deploys, lastSuccess>>

\* setSystemProfile without the dry-run return
RunsNixEnvInDryRun(operation, dryRun) == UpdatesProfile(operation)

\* setSystemProfile: whether nix-env is run
RunsNixEnv(operation, dryRun) == UpdatesProfile(operation) /\ ~dryRun

\* Deploy, lines 269-272: setSystemProfile(operation, outPath, dryRun)
SetSystemProfile(r) ==
    /\ AtStep(r, "setSystemProfile")
    /\ IF RunsNixEnv(runs[r].operation, runs[r].dryRun)
       THEN \E ok \in BOOLEAN :
              /\ systemProfile' = IF ok THEN runs[r].outPath ELSE systemProfile
              /\ SetRun(r, [After(runs[r], "setSystemProfile",
                                  IF ok THEN NoErr ELSE "nix-env", << >>)
                              EXCEPT !.cmds = Append(@, <<"nix-env --set", runs[r].outPath>>)])
       ELSE /\ systemProfile' = systemProfile
            /\ SetRun(r, After(runs[r], "setSystemProfile", NoErr, << >>))
    /\ UNCHANGED <<stateDirExists, gcRootDirExists, gcRoots, activeConfig,
                   realized, webhook, busy, deploys, lastSuccess>>

\* switchToConfiguration without the test of dryRun
RunsActivationAlways(dryRun) == TRUE

\* switchToConfiguration: whether <outPath>/bin/switch-to-configuration is run
RunsActivation(dryRun) == ~dryRun

\* What running <outPath>/bin/switch-to-configuration <operation> can leave
\* active: switch and test activate outPath when they succeed and may have
\* activated it or not when they fail; the other operations activate nothing.
ActivationOutcomes(operation, outPath, ok) ==
    IF operation \in {"switch", "test"}
    THEN IF ok THEN {outPath} ELSE {activeConfig, outPath}
    ELSE {activeConfig}

\* Deploy, lines 274-276: switchToConfiguration(operation, outPath, dryRun)
SwitchToConfiguration(r) ==
    /\ AtStep(r, "switchToConfiguration")
    /\ IF RunsActivation(runs[r].dryRun)
       THEN \E ok \in BOOLEAN :
            \E active \in ActivationOutcomes(runs[r].operation, runs[r].outPath, ok) :
              /\ activeConfig' = active
              /\ SetRun(r, [After(runs[r], "switchToConfiguration",
                                  IF ok THEN NoErr ELSE "switch", << >>)
                              EXCEPT !.cmds = Append(@, <<"switch-to-configuration",
                                                          runs[r].operation>>)])
       ELSE /\ UNCHANGED activeConfig
            /\ SetRun(r, After(runs[r], "switchToConfiguration", NoErr, << >>))
    /\ UNCHANGED <<stateDirExists, gcRootDirExists, gcRoots, systemProfile,
                   realized, webhook, busy, deploys, lastSuccess>>

\* Deploy, lines 278-284: the fingerprint after activation and the comparison
HashAfter(r) ==
    /\ AtStep(r, "hashAfter")
    /\ \E cmdOk \in BOOLEAN :
         LET h == CominUnitFileHash(cmdOk, LoadedUnit)
         IN  SetRun(r, [After(runs[r], "hashAfter", h.err, << >>) EXCEPT
                           !.afterHash = h.hash,
                           !.needToRestartComin =
                               IF h.err = NoErr
                               THEN NeedToRestart(runs[r].beforeHash, h.hash)
                               ELSE @,
                           !.cmds = Append(@, <<"systemctl cat">>)])
    /\ UNCHANGED <<machine, webhook, busy, deploys, lastSuccess>>

\* createGcRoot, lines 196-207: the dry-run return, else os.MkdirAll(gcRootDir)
CreateGcRoot(r) ==
    /\ AtStep(r, "createGcRoot")
    /\ IF runs[r].dryRun
       THEN /\ SetRun(r, After(runs[r], "createGcRoot", NoErr, << >>))
            /\ UNCHANGED <<stateDirExists, gcRootDirExists>>
       ELSE \E ok \in MkdirOutcomes(gcRootDirExists) :
              /\ gcRootDirExists' = (gcRootDirExists \/ ok)
              /\ stateDirExists' = (stateDirExists \/ ok)
              /\ SetRun(r, IF ok
                           THEN [runs[r] EXCEPT !.pc = "gcRemove",
                                                !.calls = Append(@, "createGcRoot"),
                                                !.local = << >>]
                           ELSE After(runs[r], "createGcRoot", "mkdirGcRoot", << >>))
    /\ UNCHANGED <<gcRoots, systemProfile, activeConfig, realized,
                   webhook, busy, deploys, lastSuccess>>

\* createGcRoot, lines 208-209: os.Remove(gcRoot), its error ignored
GcRemove(r) ==
    /\ AtStep(r, "gcRemove")
    /\ \E ok \in BOOLEAN :
         gcRoots' = IF ok THEN [gcRoots EXCEPT ![runs[r].hostname] = None]
                    ELSE gcRoots
    /\ SetRun(r, [runs[r] EXCEPT !.pc = "gcSymlink"])
    /\ UNCHANGED <<stateDirExists, gcRootDirExists, systemProfile, activeConfig,
                   realized, webhook, busy, deploys, lastSuccess>>

\* A symlink call that replaces a link already there
SymlinkOutcomesReplace(present) == BOOLEAN

\* os.Symlink fails when the link is still there, and may fail otherwise
SymlinkOutcomes(present) == IF present THEN {FALSE} ELSE BOOLEAN

\* createGcRoot, lines 210-214: os.Symlink(outPath, gcRoot)
GcSymlink(r) ==
    /\ AtStep(r, "gcSymlink")
    /\ \E ok \in SymlinkOutcomes(gcRoots[runs[r].hostname] # None) :
         /\ gcRoots' = IF ok THEN [gcRoots EXCEPT ![runs[r].hostname] = runs[r].outPath]
                       ELSE gcRoots
         /\ LET e == IF ok THEN NoErr ELSE "symlink"
            IN  SetRun(r, [runs[r] EXCEPT
                              !.pc = DeployNext("createGcRoot", e), !.err = e,
                              !.failed = IF ok THEN @ ELSE Append(@, "createGcRoot")])
    /\ UNCHANGED <<stateDirExists, gcRootDirExists, systemProfile, activeConfig,
                   realized, webhook, busy, deploys, lastSuccess>>

\* ------------------------------------------------ the gate and the webhook
\* A gate that accepts every trigger
TestAndSetAlways(flag) == TRUE

\* The gate's test of the busy flag: a trigger is accepted when it is clear
TestAndSet(flag) == ~flag

\* The slot a new run takes: the lowest idle one
FreeSlots == {r \in Slots : ~Running(r) /\ \A q \in Slots : q < r => Running(q)}

\* Deploy(hostname, stateDir, path, operation, dryRun) is entered
StartDeploy(hostname, operation, dryRun) ==
    [IdleRun EXCEPT !.pc = Pipeline[1], !.hostname = hostname,
                    !.operation = operation, !.dryRun = dryRun,
                    !.gcRoots0 = gcRoots, !.systemProfile0 = systemProfile]

\* handler accepting a request whenever it carries some token
AuthorizedByAnyToken(secret, header) == secret = "" \/ header # ""

\* handler, lines 30-46: the check of the X-Gitlab-Token header
Authorized(secret, header) ==
    IF secret # ""
    THEN IF header = "" THEN FALSE
         ELSE IF header # secret THEN FALSE
         ELSE TRUE
    ELSE TRUE

\* handler, lines 47-53: the status written for the gate's answer
StatusOf(accepted) == IF accepted THEN StatusOK ELSE StatusConflict

\* POST /deploy arrives with one of `headers` as its X-Gitlab-Token: handler
\* up to the call of the gate
Request(c, headers) ==
    /\ ~Crashed
    /\ cpc[c] = "idle"
    /\ \E header \in headers :
         /\ lastHeader' = header
         /\ IF Authorized(cfgSecret, header)
            THEN /\ cpc' = [cpc EXCEPT ![c] = "atGate"]
                 /\ lastStatus' = lastStatus
            ELSE /\ cpc' = cpc
                 /\ lastStatus' = StatusUnauthorized
    /\ UNCHANGED <<machine, cfgSecret, busy, runs, deploys, lastSuccess>>

\* A gate that starts the orchestrator for a trigger it has refused as well
StartsRunAlways(accepted) == TRUE

\* The gate starts an orchestrator run for the triggers it accepts, and drops
\* the others
StartsRun(accepted) == accepted

\* handler, lines 47-53: w.Beat(...) and the answer.  The gate tests and sets
\* the busy flag in one step and starts the orchestrator when it was clear;
\* params are the Deploy arguments the agent may be configured with.
Beat(c, params) ==
    /\ ~Crashed
    /\ cpc[c] = "atGate"
    /\ busy \/ deploys < MaxDeploys
    /\ IF StartsRun(TestAndSet(busy))
       THEN /\ busy' = TRUE
            /\ deploys' = deploys + 1
            /\ \E r \in FreeSlots, p \in params :
                 SetRun(r, StartDeploy(p[1], p[2], p[3]))
       ELSE UNCHANGED <<busy, runs, deploys>>
    /\ lastStatus' = StatusOf(TestAndSet(busy))
    /\ cpc' = [cpc EXCEPT ![c] = "idle"]
    /\ UNCHANGED <<machine, cfgSecret, lastHeader, lastSuccess>>

\* A gate that leaves the flag set when a run completes
NeverCleared == TRUE

\* The value the busy flag takes when a run completes
ClearedFlag == FALSE

\* The orchestrator run of slot r has returned: the gate clears the flag
Complete(r) ==
    /\ AtStep(r, "returned")
    /\ busy' = ClearedFlag
    /\ lastSuccess' = IF runs[r].err = NoErr /\ ~runs[r].dryRun
                      THEN [lastSuccess EXCEPT ![runs[r].hostname] = runs[r].outPath]
                      ELSE lastSuccess
    /\ SetRun(r, IdleRun)
    /\ UNCHANGED <<machine, webhook, deploys>>

\* --------------------------------------------------------- specifications
DeployStep(r) ==
    \/ MkdirStateDir(r)
    \/ CheckMachineIdStep(r)
    \/ BuildStep(r)
    \/ HashBefore(r)
    \/ SetSystemProfile(r)
    \/ SwitchToConfiguration(r)
    \/ HashAfter(r)
    \/ CreateGcRoot(r)
    \/ GcRemove(r)
    \/ GcSymlink(r)

\* Every host, operation and mode the agent can be asked to deploy
DeployParams == Hosts \X Operations \X BOOLEAN

\* The deployment pipeline, triggered by one webhook caller at a time, who
\* holds the token
OperatorHeaders == {"s3cret"}

Next ==
    \/ Request(1, OperatorHeaders)
    \/ Beat(1, DeployParams)
    \/ \E r \in Slots : DeployStep(r)
    \/ \E r \in Slots : Complete(r)

Spec == Init /\ [][Next]_vars

\* The gate under concurrent webhook callers, the agent deploying its own host
GateParams == {"web1"} \X {"switch"} \X BOOLEAN

NextGate ==
    \/ \E c \in Callers : Request(c, Headers)
    \/ \E c \in Callers : Beat(c, GateParams)
    \/ \E r \in Slots : DeployStep(r)
    \/ \E r \in Slots : Complete(r)

SpecGate == Init /\ [][NextGate]_vars

\* ================================================================ claims
Last(seq) == seq[Len(seq)]

\* The run has just come back from checkMachineId with an expected identity
\* that is set and is not the identity of this machine
IdentityMismatch(run) ==
    /\ run.calls # << >>
    /\ Last(run.calls) = "checkMachineId"
    /\ run.local.isSet
    /\ run.local.expected # LocalMachineId

\* C1: a Deploy run whose configuration declares an expected machine identity
\* other than the identity of the local machine ends in failure at the identity
\* check: it has returned an error, and the build, setSystemProfile,
\* switchToConfiguration and createGcRoot have not been executed (the only
\* command run is the evaluation of the expected identity).
C1_MismatchStopsDeploy ==
    \A r \in Slots :
        IdentityMismatch(runs[r]) =>
            /\ runs[r].pc = "returned"
            /\ runs[r].err # NoErr
            /\ runs[r].calls = <<"MkdirAll", "checkMachineId">>
            /\ runs[r].cmds = << <<"nix eval">> >>
            /\ runs[r].outPath = None

C1_Witness ==
    \E r \in Slots :
        /\ IdentityMismatch(runs[r])
        /\ runs[r].pc = "returned"
        /\ runs[r].err = "mismatch"

\* C2: under every interleaving of the webhook callers at most one Deploy run
\* is in progress.
C2_AtMostOneRun == Cardinality(InProgress) <= 1

\* Two callers are at the gate at once while a run is in progress.
C2_Witness ==
    /\ InProgress # {}
    /\ Cardinality({c \in Callers : cpc[c] = "atGate"}) >= 2

\* C3: the busy flag is set exactly while a Deploy run is in progress, and a
\* trigger is accepted (answered 200) exactly when no run is in progress at the
\* moment it reaches the gate: triggers during a run are refused, and after the
\* run has completed, with or without an error, the next one is accepted.
C3_TriggerAcceptedIffIdle ==
    /\ [](busy <=> InProgress # {})
    /\ [][\A c \in Callers :
            (cpc[c] = "atGate" /\ cpc'[c] = "idle") =>
                ((lastStatus' = StatusOK) <=> (InProgress = {}))]_vars

\* A second run is in progress, so the first one completed and its flag was
\* cleared, the first run not having deployed anything, and the trigger
\* answered last was refused.
C3_Witness ==
    /\ deploys = 2
    /\ busy
    /\ InProgress # {}
    /\ lastStatus = StatusConflict
    /\ \A h \in Hosts : lastSuccess[h] = None

\* C4: when no run is in progress, the GC root of every host is the output
\* path of the last successful non-dry-run deployment to that host, and is
\* absent when there was none.
C4_GcRootIsLastSuccess ==
    InProgress = {} => \A h \in Hosts : gcRoots[h] = lastSuccess[h]

\* The run has got through evaluation, identity check, build and both
\* fingerprints
FingerprintsTaken(run) ==
    /\ {"checkMachineId", "Build", "hashBefore", "hashAfter"} \subseteq Range(run.calls)
    /\ Range(run.failed) \cap {"checkMachineId", "Build", "hashBefore", "hashAfter"} = {}

CommandsRun(run) == {cmd[1] : cmd \in Range(run.cmds)}

\* C5: throughout a dry-run Deploy the system profile and the GC root of the
\* host are what they were when the run began, and neither nix-env nor
\* switch-to-configuration is run; a dry run that got through evaluation,
\* identity check, build and both fingerprints returns success, every step of
\* the pipeline having been called.
C5_DryRunMutatesNothing ==
    \A r \in Slots :
        (Running(r) /\ runs[r].dryRun) =>
            /\ systemProfile = runs[r].systemProfile0
            /\ gcRoots[runs[r].hostname] = runs[r].gcRoots0[runs[r].hostname]
            /\ CommandsRun(runs[r]) \cap {"switch-to-configuration", "nix-env --set"} = {}
            /\ (runs[r].pc = "returned" /\ FingerprintsTaken(runs[r])) =>
                   /\ runs[r].err = NoErr
                   /\ runs[r].calls = Pipeline

\* A dry-run switch to an output path that is neither the system profile nor
\* the GC root the host already has, returned with success.
C5_Witness ==
    \E r \in Slots :
        /\ runs[r].pc = "returned" /\ runs[r].dryRun /\ runs[r].err = NoErr
        /\ FingerprintsTaken(runs[r])
        /\ runs[r].operation = "switch"
        /\ systemProfile \notin {None, runs[r].outPath}
        /\ gcRoots[runs[r].hostname] \notin {None, runs[r].outPath}

\* The order of the steps of one orchestrator run
StepOrder ==
    << "MkdirAll", "checkMachineId", "Build", "hashBefore",
       "setSystemProfile", "switchToConfiguration", "hashAfter", "createGcRoot" >>

\* C6: the steps a run has executed are always an initial part of: state
\* directory, identity check, build, fingerprint, setSystemProfile,
\* switchToConfiguration, fingerprint, GC root; a run that is about to execute
\* a step has executed exactly the steps before it, all without error; and the
\* removal and creation of the GC root happen after all eight were called.
C6_StepsInOrder ==
    \A r \in Slots :
        LET run == runs[r]
            n == Len(run.calls)
        IN  /\ n <= Len(StepOrder)
            /\ run.calls = SubSeq(StepOrder, 1, n)
            /\ run.pc \in Range(StepOrder) =>
                   /\ StepOrder[n + 1] = run.pc
                   /\ run.failed = << >>
                   /\ run.err = NoErr
            /\ run.pc \in {"gcRemove", "gcSymlink"} =>
                   /\ run.calls = StepOrder
                   /\ run.failed = << >>

\* A run that is not a dry run is about to create the GC root symlink.
C6_Witness ==
    \E r \in Slots :
        /\ runs[r].pc = "gcSymlink"
        /\ runs[r].calls = StepOrder
        /\ ~runs[r].dryRun

\* The steps of the run that returned no error
Succeeded(run) == Range(run.calls) \ Range(run.failed)

\* C7: no step of a run is executed twice; as soon as a step has returned an
\* error the run has returned with that error, the failing step being the last
\* one executed; and what the steps before it did is still in place: the state
\* directory exists, the built output is realized, the system profile points
\* at the new output path where nix-env was run, and a switch or test that
\* succeeded has left the output path active.
C7_FailFastNoRollback ==
    \A r \in Slots :
        LET run == runs[r]
        IN  /\ \A i, j \in 1..Len(run.calls) : i # j => run.calls[i] # run.calls[j]
            /\ Len(run.failed) <= 1
            /\ run.failed # << >> =>
                   /\ run.pc = "returned"
                   /\ run.err # NoErr
                   /\ Last(run.calls) = run.failed[1]
                   /\ "MkdirAll" \in Succeeded(run) => stateDirExists
                   /\ "Build" \in Succeeded(run) => run.outPath \in realized
                   /\ ("setSystemProfile" \in Succeeded(run)
                         /\ "nix-env --set" \in CommandsRun(run)) =>
                          systemProfile = run.outPath
                   /\ ("switchToConfiguration" \in Succeeded(run)
                         /\ "switch-to-configuration" \in CommandsRun(run)
                         /\ run.operation \in {"switch", "test"}) =>
                          activeConfig = run.outPath

\* The activation failed after nix-env had moved the system profile to the new
\* output path: the profile stays there.
C7_Witness ==
    \E r \in Slots :
        /\ runs[r].pc = "returned"
        /\ runs[r].failed = <<"switchToConfiguration">>
        /\ systemProfile = runs[r].outPath
        /\ systemProfile # runs[r].systemProfile0
        /\ runs[r].systemProfile0 # None

\* The steps of the activation phase
ActivationSteps == {"hashBefore", "setSystemProfile", "switchToConfiguration", "hashAfter"}

\* C8: createGcRoot is called only in a run none of whose earlier steps
\* failed, and a run in which a fingerprint, setSystemProfile or
\* switchToConfiguration failed returns with the GC roots exactly as they were
\* when it began.
C8_FailedActivationKeepsGcRoot ==
    \A r \in Slots :
        LET run == runs[r]
        IN  /\ "createGcRoot" \in Range(run.calls) =>
                   Range(run.failed) \subseteq {"createGcRoot"}
            /\ (run.pc = "returned" /\ Range(run.failed) \cap ActivationSteps # {}) =>
                   /\ gcRoots = run.gcRoots0
                   /\ "createGcRoot" \notin Range(run.calls)

\* The activation of a new output path failed for a host that has a GC root:
\* the root still points at the previous output path.
C8_Witness ==
    \E r \in Slots :
        /\ runs[r].pc = "returned"
        /\ runs[r].failed = <<"switchToConfiguration">>
        /\ gcRoots[runs[r].hostname] \notin {None, runs[r].outPath}
        /\ gcRoots = runs[r].gcRoots0

\* C9: until setSystemProfile is called the system profile is what it was when
\* the run began.  Once it has been called: nix-env has been run with the new
\* output path if and only if the operation is switch or boot and the run is
\* not a dry run, and the profile then points at the new output path unless
\* nix-env failed; otherwise the profile is unchanged, and for an operation
\* other than switch and boot setSystemProfile has returned no error.  Once
\* switchToConfiguration has been called in a run that is not a dry run,
\* switch-to-configuration has been run with the operation of the run.
C9_ProfileOnlyForSwitchAndBoot ==
    \A r \in Slots :
        LET run == runs[r]
            profileOp == run.operation \in {"switch", "boot"}
            ranNixEnv == <<"nix-env --set", run.outPath>> \in Range(run.cmds)
        IN  /\ (Running(r) /\ "setSystemProfile" \notin Range(run.calls)) =>
                   /\ systemProfile = run.systemProfile0
                   /\ "nix-env --set" \notin CommandsRun(run)
            /\ "setSystemProfile" \in Range(run.calls) =>
                   /\ ranNixEnv <=> (profileOp /\ ~run.dryRun)
                   /\ (ranNixEnv /\ "setSystemProfile" \notin Range(run.failed)) =>
                          systemProfile = run.outPath
                   /\ (~ranNixEnv \/ "setSystemProfile" \in Range(run.failed)) =>
                          systemProfile = run.systemProfile0
                   /\ ~profileOp => "setSystemProfile" \notin Range(run.failed)
            /\ ("switchToConfiguration" \in Range(run.calls) /\ ~run.dryRun) =>
                   <<"switch-to-configuration", run.operation>> \in Range(run.cmds)

\* A test deployment that is not a dry run has run switch-to-configuration
\* test and left the system profile on another output path.
C9_Witness ==
    \E r \in Slots :
        /\ runs[r].operation = "test" /\ ~runs[r].dryRun
        /\ <<"switch-to-configuration", "test">> \in Range(runs[r].cmds)
        /\ systemProfile \notin {None, runs[r].outPath}
        /\ "nix-env --set" \notin CommandsRun(runs[r])

\* C10: once the second fingerprint has been taken, needToRestartComin is true
\* if and only if the fingerprint taken before setSystemProfile differs from
\* it, both being fingerprints of a unit, the second one that of the unit
\* loaded after the activation; this stays so when createGcRoot fails.
C10_RestartIffFingerprintsDiffer ==
    \A r \in Slots :
        LET run == runs[r]
        IN  ("hashAfter" \in Succeeded(run)) =>
                /\ run.needToRestartComin <=> (run.beforeHash # run.afterHash)
                /\ run.beforeHash # << >>
                /\ run.afterHash = Sha256(LoadedUnit)

\* The fingerprints differed and createGcRoot failed afterwards.
C10_Witness ==
    \E r \in Slots :
        /\ runs[r].pc = "returned"
        /\ runs[r].failed = <<"createGcRoot">>
        /\ runs[r].needToRestartComin
        /\ runs[r].beforeHash # runs[r].afterHash

\* Steps of the handler, told by what they change
Admitted(c) == cpc[c] = "idle" /\ cpc'[c] = "atGate"
Answered(c) == cpc[c] = "atGate" /\ cpc'[c] = "idle"
Refused == cpc' = cpc /\ (lastHeader' # lastHeader \/ lastStatus' # lastStatus)

\* C11: a request goes on to the gate only when no secret is configured or its
\* token is the secret; the gate's answer is written as 200 exactly when the
\* trigger started a run and as 409 exactly when a run was in progress; and a
\* request that does not go on to the gate is one whose token is missing or
\* differs from the configured secret: it is answered 401 and leaves the busy
\* flag, the runs and the number of runs started unchanged.
C11_StatusCodes ==
    [][/\ \A c \in Callers :
            /\ Admitted(c) =>
                   /\ cfgSecret = "" \/ lastHeader' = cfgSecret
                   /\ UNCHANGED <<busy, runs, deploys, lastStatus>>
            /\ Answered(c) =>
                   /\ lastStatus' \in {StatusOK, StatusConflict}
                   /\ (lastStatus' = StatusOK) <=>
                          (deploys' = deploys + 1 /\ ~busy /\ busy' /\ InProgress' # {})
                   /\ (lastStatus' = StatusConflict) <=>
                          (busy /\ InProgress # {} /\ UNCHANGED <<busy, runs, deploys>>)
       /\ Refused =>
            /\ lastStatus' = StatusUnauthorized
            /\ cfgSecret # ""
            /\ lastHeader' = "" \/ lastHeader' # cfgSecret
            /\ UNCHANGED <<busy, runs, deploys>>]_vars

\* A request with a wrong token was answered 401 while a run was in progress
\* and another caller was waiting at the gate.
C11_Witness ==
    /\ lastStatus = StatusUnauthorized
    /\ cfgSecret # ""
    /\ lastHeader = "wrong"
    /\ InProgress # {}
    /\ \E c \in Callers : cpc[c] = "atGate"

\* The run has just come back from Build with an entry of the query result
\* selected
EntrySelected(run) ==
    /\ run.calls # << >>
    /\ Last(run.calls) = "Build"
    /\ run.pc # "crashed"
    /\ run.err \notin {"show-derivation", "json"}

\* C12: the derivation showDerivation selects is the entry of the requested
\* host's toplevel build, whatever other entries the query result has.
C12_SelectsToplevel ==
    \A r \in Slots :
        EntrySelected(runs[r]) =>
            /\ runs[r].local.drvPath = runs[r].local.toplevel
            /\ runs[r].outPath = OutPathOf(runs[r].local.toplevel)

\* The run has just come back from checkMachineId
IdentityChecked(run) == run.calls # << >> /\ Last(run.calls) = "checkMachineId"

\* C13: when the expected identity evaluates to null the identity check
\* returns no error, /etc/machine-id is not read and the run goes on to Build;
\* when it is set and /etc/machine-id cannot be read, the run has returned an
\* error with only the state directory and the identity check executed.
C13_AbsentPassesUnreadableFails ==
    \A r \in Slots :
        IdentityChecked(runs[r]) =>
            /\ (runs[r].local.evalErr = NoErr /\ ~runs[r].local.isSet) =>
                   /\ runs[r].err = NoErr
                   /\ ~runs[r].local.readsMachineId
                   /\ runs[r].pc = "Build"
            /\ (runs[r].local.isSet /\ runs[r].local.readFailed) =>
                   /\ runs[r].pc = "returned"
                   /\ runs[r].err = "readMachineId"
                   /\ runs[r].calls = <<"MkdirAll", "checkMachineId">>
                   /\ runs[r].cmds = << <<"nix eval">> >>
                   /\ runs[r].outPath = None

\* The expected identity is the one of this machine, /etc/machine-id could not
\* be read, and the run has returned the error.
C13_Witness ==
    \E r \in Slots :
        /\ IdentityChecked(runs[r])
        /\ runs[r].local.isSet /\ runs[r].local.readFailed
        /\ runs[r].local.expected = LocalMachineId
        /\ runs[r].pc = "returned"

\* A step taken while a dry-run Deploy is under way
DryRunStep == \E r \in Slots : Running(r) /\ runs[r].dryRun

\* C14: no step of a dry-run Deploy changes any durable state: the state
\* directory, the gcroots directory, the GC roots, the system profile, the
\* active configuration and the realized build outputs all stay as they were.
C14_DryRunLeavesAllState == [][DryRunStep => UNCHANGED machine]_vars

\* C14, amended: no step of a dry-run Deploy changes the gcroots directory,
\* the GC roots, the system profile or the active configuration; the state
\* directory may be created and build outputs may be realized, and neither is
\* ever taken away.
C14_DryRunKeepsRootsProfileActive ==
    [][DryRunStep =>
          /\ UNCHANGED <<gcRootDirExists, gcRoots, systemProfile, activeConfig>>
          /\ stateDirExists => stateDirExists'
          /\ realized \subseteq realized']_vars

\* The first run of the machine was a dry-run switch that returned success:
\* the state directory now exists and the output is realized, and nothing else
\* has changed.
C14_Witness ==
    \E r \in Slots :
        /\ deploys = 1
        /\ runs[r].pc = "returned" /\ runs[r].dryRun /\ runs[r].err = NoErr
        /\ runs[r].operation = "switch"
        /\ stateDirExists
        /\ runs[r].outPath \in realized
        /\ ~gcRootDirExists
        /\ gcRoots = [h \in Hosts |-> None]
        /\ systemProfile = None
        /\ activeConfig = None

\* C15: a dry-run Deploy never asks for a restart; once it has taken both
\* fingerprints they are the same fingerprint of the loaded unit, each obtained
\* by its own `systemctl cat`.
C15_DryRunNeverRestarts ==
    \A r \in Slots :
        (Running(r) /\ runs[r].dryRun) =>
            /\ ~runs[r].needToRestartComin
            /\ {"hashBefore", "hashAfter"} \subseteq Succeeded(runs[r]) =>
                   /\ runs[r].beforeHash = runs[r].afterHash
                   /\ runs[r].beforeHash = Sha256(LoadedUnit)
                   /\ Cardinality({i \in 1..Len(runs[r].cmds) :
                                      runs[r].cmds[i][1] = "systemctl cat"}) = 2

\* A dry-run switch has returned success with both fingerprints taken, to an
\* output whose unit is not the one loaded: the same switch for real would
\* have asked for the restart.
C15_Witness ==
    \E r \in Slots :
        /\ runs[r].pc = "returned" /\ runs[r].dryRun /\ runs[r].err = NoErr
        /\ runs[r].operation = "switch"
        /\ {"hashBefore", "hashAfter"} \subseteq Succeeded(runs[r])
        /\ activeConfig # None
        /\ UnitOf(runs[r].outPath) # LoadedUnit
        /\ ~runs[r].needToRestartComin

\* The trigger of some caller is answered in this step, with this status
AnsweredWith(status) == \E c \in Callers : Answered(c) /\ lastStatus' = status

\* The runs that start in this step
Started == {r \in Slots : ~Running(r) /\ Running(r)'}

\* C16: a run starts only in the step that accepts a trigger, and that step
\* starts exactly one; a refused trigger starts nothing and leaves nothing
\* behind, so the number of runs started is the number of triggers accepted.
C16_RefusedTriggerDropped ==
    [][/\ Started # {} => AnsweredWith(StatusOK)
       /\ deploys' # deploys => AnsweredWith(StatusOK)
       /\ AnsweredWith(StatusOK) =>
              /\ Cardinality(Started) = 1
              /\ deploys' = deploys + 1
       /\ AnsweredWith(StatusConflict) =>
              /\ Started = {}
              /\ UNCHANGED <<busy, runs, deploys>>]_vars

\* A trigger was refused while the only run so far was in progress; that run
\* has completed, and no run is in progress nor was any other started.
C16_Witness ==
    /\ deploys = 1
    /\ lastStatus = StatusConflict
    /\ InProgress = {}
    /\ ~busy
    /\ \A c \in Callers : cpc[c] = "idle"

\* The run is a non-dry-run Deploy that has returned success
Deployed(run) == run.pc = "returned" /\ run.err = NoErr /\ ~run.dryRun

\* C17: when a non-dry-run Deploy for a host has returned success, whatever
\* the operation, the GC root of that host is the output path the run built,
\* and the GC root of every other host is what it was when the run began.
C17_GcRootIsOutPath ==
    \A r \in Slots :
        Deployed(runs[r]) =>
            /\ runs[r].outPath # None
            /\ gcRoots[runs[r].hostname] = runs[r].outPath
            /\ \A h \in Hosts \ {runs[r].hostname} : gcRoots[h] = runs[r].gcRoots0[h]

\* A `test` deployment has returned success for a host whose GC root pointed
\* at another output path: the root has been replaced.
C17_Witness ==
    \E r \in Slots :
        /\ Deployed(runs[r])
        /\ runs[r].operation = "test"
        /\ runs[r].gcRoots0[runs[r].hostname] \notin {None, runs[r].outPath}
        /\ gcRoots[runs[r].hostname] = runs[r].outPath

\* C18: no Deploy run ever ends otherwise than by returning its result: the
\* process never aborts in the middle of a run, a derivation query with no
\* entry included.
C18_EveryRunReturns == \A r \in Slots : runs[r].pc # "crashed"

\* C19: createGcRoot removes before it creates: when the symlink is about to
\* be created, the host has no GC root, or still the one it had when the
\* removal failed; the symlink is created only where there is no root; and a
\* symlink call that fails ends the run with an error and leaves the roots as
\* the removal left them, the host without any root when it was removed.
C19_RemoveThenCreate ==
    [][\A r \in Slots :
          LET run == runs[r]
              h   == run.hostname
          IN  /\ (run.pc = "gcRemove" /\ runs'[r] # run) =>
                     /\ runs'[r].pc = "gcSymlink"
                     /\ gcRoots'[h] \in {None, run.gcRoots0[h]}
                     /\ \A o \in Hosts \ {h} : gcRoots'[o] = gcRoots[o]
              /\ run.pc \in {"gcRemove", "gcSymlink"} =>
                     /\ ~run.dryRun
                     /\ runs'[r] = run => gcRoots' = gcRoots
              /\ (run.pc = "gcSymlink" /\ runs'[r] # run) =>
                     /\ gcRoots[h] \in {None, run.gcRoots0[h]}
                     /\ runs'[r].pc = "returned"
                     /\ runs'[r].err = NoErr =>
                            /\ gcRoots[h] = None
                            /\ gcRoots'[h] = run.outPath
                     /\ runs'[r].err # NoErr =>
                            /\ gcRoots' = gcRoots
                            /\ Last(runs'[r].failed) = "createGcRoot"]_vars

\* The host had a GC root, the run removed it, the symlink call failed: the
\* run has returned the error and the host has no GC root.
C19_Witness ==
    \E r \in Slots :
        /\ runs[r].pc = "returned"
        /\ runs[r].err = "symlink"
        /\ runs[r].gcRoots0[runs[r].hostname] # None
        /\ gcRoots[runs[r].hostname] = None

\* C20: the first step of every run is the creation of the state directory;
\* once it has succeeded the directory exists, whether the run is a dry run
\* or fails later; it fails only where the directory is missing, and then the
\* run has returned with nothing else executed.
C20_StateDirFirst ==
    \A r \in Slots :
        LET run == runs[r]
        IN  /\ run.calls # << >> => run.calls[1] = "MkdirAll"
            /\ "MkdirAll" \in Succeeded(run) => stateDirExists
            /\ "MkdirAll" \in Range(run.failed) =>
                   /\ ~stateDirExists
                   /\ run.pc = "returned"
                   /\ run.err = "mkdir"
                   /\ run.calls = <<"MkdirAll">>
                   /\ run.cmds = << >>

\* A dry run, the second run of the machine, stopped at the identity check:
\* the state directory the first run created was there when it began, and
\* exists.
C20_Witness ==
    \E r \in Slots :
        /\ deploys = 2
        /\ runs[r].pc = "returned" /\ runs[r].dryRun
        /\ runs[r].calls = <<"MkdirAll", "checkMachineId">>
        /\ runs[r].err = "mismatch"
        /\ stateDirExists

====
